---- MODULE Spec2Model ----
(***************************************************************************)
(* Tile raster cache and mosaic assembly of map-segmentation-gendata.      *)
(*                                                                         *)
(* Two programs are modelled, each under its own specification:            *)
(*   Spec       the mosaic stitcher, src/stitch_pictures/src/main.rs       *)
(*   CacheSpec  the tile image cache (ImageCache), src/src/main.rs         *)
(* The variables of the program a specification does not run keep their    *)
(* initial value.                                                          *)
(***************************************************************************)
EXTENDS Integers, Sequences, FiniteSets, TLC

(***************************************************************************)
(* Bounds of the model.                                                    *)
(*   N           edge of a mosaic block in tiles.  The stitcher writes the *)
(*               literal 8 (main.rs:34,35,150,153,163,164); the model runs *)
(*               the same code over a smaller block.                       *)
(*   ChanCap     capacity of the request channel, sync_channel(100) in the *)
(*               stitcher (main.rs:129); the model runs a smaller buffer,  *)
(*               so that senders block sooner.                             *)
(*   NumWorkers  threads of the rayon pool that run the sweep's closure.   *)
(***************************************************************************)
N == 2
ChanCap == 2
NumWorkers == 2

(***************************************************************************)
(* Tiles and persisted names.  A tile is <<x, y>> at the fixed ZOOM.  A    *)
(* file of a namespace is named "{y}-{x}.ext"; the parse of a name         *)
(* (u32::from_str) also accepts a spelling that format! never produces     *)
(* ("00-0.jpg"): alt = 1 marks such a spelling of the same two numbers.    *)
(***************************************************************************)
Tile(x, y) == <<x, y>>

FileName(t) == [y |-> t[2], x |-> t[1], alt |-> 0]

ParseName(name) == Tile(name.x, name.y)

\* The members of the block anchored at tile, in the order of the loops
\* "for dx in 0..8 { for dy in 0..8 {": member k is (x + k / N, y + k % N).
\* Blocks laid out as a row of N * N tiles, which reach into the next block.
MemberInRow(tile, k) == Tile(tile[1] + k, tile[2])

Member(tile, k) == Tile(tile[1] + (k \div N), tile[2] + (k % N))

Members(tile) == { Member(tile, k) : k \in 0..(N * N - 1) }

\* A filter that forgets the test of y (153-155).
IsAnchorXOnly(tile) == tile[1] % N = 0

IsAnchor(tile) == tile[1] % N = 0 /\ tile[2] % N = 0

\* files.sort() orders the names as strings, all_tiles.sort_by_key orders the
\* tiles by (x, y) and is stable: equal tiles stay in the order of their names,
\* and "0-0.jpg" < "00-0.jpg" ('-' sorts before '0').
NameBefore(a, b) ==
    \/ a.x < b.x
    \/ a.x = b.x /\ a.y < b.y
    \/ a.x = b.x /\ a.y = b.y /\ a.alt < b.alt

RECURSIVE SortedTiles(_)
SortedTiles(names) ==
    IF names = {} THEN << >>
    ELSE LET first == CHOOSE a \in names : \A b \in names \ {a} : NameBefore(a, b)
         IN  << ParseName(first) >> \o SortedTiles(names \ {first})

(***************************************************************************)
(* The directories the stitcher starts from.                               *)
(***************************************************************************)
Anchor0 == Tile(0, 0)
Anchor1 == Tile(N, 0)
AltName0 == [y |-> 0, x |-> 0, alt |-> 1]
LastMember0 == Tile(N - 1, N - 1)

\* ../tiles: block 0 whole or without its last member; and with it nothing,
\* or a second spelling of its anchor, or the anchor of block 1 (whose other
\* members are absent).
TileDirs ==
    { ({ FileName(t) : t \in Members(Anchor0) \ miss }) \cup extra :
        miss \in SUBSET { LastMember0 },
        extra \in { {}, { AltName0 }, { FileName(Anchor1) } } }

\* ../outlines: the outlines of block 0, whole or without one.
OutlineDirs ==
    { { FileName(t) : t \in Members(Anchor0) \ miss } :
        miss \in SUBSET { Tile(N - 1, 0) } }

\* What a stitched file holds: nothing (no such file), what an earlier run
\* left, or the image this run composed, with the members painted as sentinel.
NoFile == [kind |-> "none", sentinels |-> {}]
Prior == [kind |-> "prior", sentinels |-> {}]
Stitched(sentinels) == [kind |-> "stitched", sentinels |-> sentinels]

VARIABLES
    tile_files,       \* names in ../tiles
    outline_files,    \* names in ../outlines
    stitched_tiles,   \* ../stitched/tiles: block key -> NoFile or content
    stitched_outlines,\* ../stitched/outlines: block key -> NoFile or content
    all_tiles,        \* the work list of the sweep
    tiles_touched,    \* the coordinator's HashSet
    chan,             \* the request channel (tx, rx)
    reply,            \* per closure call: its reply channel (my_tx, my_rx)
    pc,               \* per closure call: its position
    k,                \* per closure call: Add requests sent so far
    answer,           \* per closure call: what my_rx.recv() returned
    built,            \* per closure call: how build_tile_img ended
    ok,               \* main's counter ok
    fail              \* main's counter fail

stitchVars ==
    << tile_files, outline_files, stitched_tiles, stitched_outlines, all_tiles,
       tiles_touched, chan, reply, pc, k, answer, built, ok, fail >>

VARIABLES
    cache,            \* the ImageCache: its maps tiles and outlines, its set dirty
    disk_tiles,       \* names in tiles/
    disk_outlines,    \* outlines/: name -> the canvas saved under it
    fetches,          \* per tile: requests sent to the imagery provider
    panicked,         \* the process died in an unwrap
    draws,            \* calls of draw_polygon so far
    prepared,         \* the tiles for which a call of prepare_tile returned Ok
    last_call         \* the last call of the cache's interface and its result

cacheVars ==
    << cache, disk_tiles, disk_outlines, fetches, panicked, draws, prepared, last_call >>

VARIABLES
    listing,          \* build_outlines: the names read_dir("tiles") returned
    tiles,            \* build_outlines: the HashSet tiles
    sweep_dir,        \* names in tiles/ during the download sweep
    at,               \* per tile of the sweep: the position of its download_tile call
    requests          \* per tile of the sweep: requests sent to the provider

sweepVars == << listing, tiles, sweep_dir, at, requests >>

VARIABLES
    raw_tiles,        \* load: the names in tiles/, as spelled
    raw_outlines,     \* load: the names in outlines/, as spelled
    unread,           \* load: the names the running loop has yet to take
    index,            \* load: the tiles of cache.tiles and of cache.outlines
    load_at           \* load: the loop it is in, or how it ended

loadVars == << raw_tiles, raw_outlines, unread, index, load_at >>

vars == << stitchVars, cacheVars, sweepVars, loadVars >>

Calls == 1..Len(all_tiles)

Keys == { Anchor0, Anchor1 }

StitchInit ==
    /\ tile_files \in TileDirs
    /\ outline_files \in OutlineDirs
    /\ stitched_tiles \in [Keys -> {NoFile, Prior}]
    /\ stitched_outlines \in [Keys -> {NoFile, Prior}]
    /\ stitched_tiles[Anchor1] = NoFile
    /\ stitched_outlines[Anchor1] = NoFile
    /\ all_tiles = SortedTiles(tile_files)
    /\ tiles_touched = {}
    /\ chan = << >>
    /\ reply = [i \in 1..Len(all_tiles) |-> "empty"]
    /\ pc = [i \in 1..Len(all_tiles) |-> "todo"]
    /\ k = [i \in 1..Len(all_tiles) |-> 0]
    /\ answer = [i \in 1..Len(all_tiles) |-> "none"]
    /\ built = [i \in 1..Len(all_tiles) |-> "none"]
    /\ ok = 0
    /\ fail = 0

\* get_tile / get_outline: the file named by format! can be opened.
get_tile(t) == FileName(t) \in tile_files

get_outline(t) == FileName(t) \in outline_files

Running == { i \in Calls : pc[i] \notin {"todo", "done"} }

\* A pool thread is free to take position i of the list.  Anchors are taken
\* in any order.  The positions the closure filters out (150-155) touch no
\* shared state, so their order is immaterial: they are taken in list order.
CanStart(i) ==
    /\ pc[i] = "todo"
    /\ Cardinality(Running) < NumWorkers
    /\ IsAnchor(all_tiles[i]) \/ \A j \in 1..(i - 1) : IsAnchor(all_tiles[j]) \/ pc[j] = "done"

(***************************************************************************)
(* The closure of par_iter().for_each, main.rs:148-172.                    *)
(***************************************************************************)
\* 150-155: a tile that is not an anchor returns at once.
Filtered(i) ==
    /\ CanStart(i)
    /\ ~IsAnchor(all_tiles[i])
    /\ pc' = [pc EXCEPT ![i] = "done"]
    /\ UNCHANGED << tile_files, outline_files, stitched_tiles, stitched_outlines,
                    all_tiles, tiles_touched, chan, reply, k, answer, built, ok, fail,
                    cacheVars, sweepVars, loadVars >>

\* 156-157: tx.send(Request::Contains(*tile, my_tx)); blocks while chan is full.
SendContains(i) ==
    /\ CanStart(i)
    /\ IsAnchor(all_tiles[i])
    /\ Len(chan) < ChanCap
    /\ chan' = Append(chan, [kind |-> "Contains", tile |-> all_tiles[i], from |-> i])
    /\ pc' = [pc EXCEPT ![i] = "wait"]
    /\ UNCHANGED << tile_files, outline_files, stitched_tiles, stitched_outlines,
                    all_tiles, tiles_touched, reply, k, answer, built, ok, fail,
                    cacheVars, sweepVars, loadVars >>

\* 159: my_rx.recv(); on true the closure is over, on false it builds.
RecvReply(i) ==
    /\ pc[i] = "wait"
    /\ reply[i] # "empty"
    /\ answer' = [answer EXCEPT ![i] = reply[i]]
    /\ reply' = [reply EXCEPT ![i] = "empty"]
    /\ pc' = [pc EXCEPT ![i] = IF reply[i] = "present" THEN "done" ELSE "build"]
    /\ UNCHANGED << tile_files, outline_files, stitched_tiles, stitched_outlines,
                    all_tiles, tiles_touched, chan, k, built, ok, fail,
                    cacheVars, sweepVars, loadVars >>

\* build_tile_img 25-80: the existence check of the stitched base image, then
\* the 64 members: a missing base tile returns false, a missing outline is
\* painted as a sentinel square.  The member files do not change during the
\* sweep, so reading them is one step with the existence check.
MissingTiles(tile) == { t \in Members(tile) : ~get_tile(t) }

SentinelMembers(tile) == { t \in Members(tile) : ~get_outline(t) }

\* A build without the existence check of 25-30.
NeverExists(tile) == FALSE

AlreadyExists(tile) == stitched_tiles[tile] # NoFile

\* A build that does not return at a missing base tile (46-49).
BuildOutcomeNoAbort(tile) ==
    IF AlreadyExists(tile) THEN "exists" ELSE "composed"

BuildOutcome(tile) ==
    IF AlreadyExists(tile) THEN "exists"
    ELSE IF MissingTiles(tile) # {} THEN "no tile"
    ELSE "composed"

BuildCheck(i) ==
    /\ pc[i] = "build"
    /\ built' = [built EXCEPT ![i] = BuildOutcome(all_tiles[i])]
    /\ pc' = [pc EXCEPT ![i] =
                IF BuildOutcome(all_tiles[i]) = "composed" THEN "save_tile" ELSE "add"]
    /\ UNCHANGED << tile_files, outline_files, stitched_tiles, stitched_outlines,
                    all_tiles, tiles_touched, chan, reply, k, answer, ok, fail,
                    cacheVars, sweepVars, loadVars >>

\* 82-84: target_tile.save(../stitched/tiles/{y}-{x}.jpg)
SaveTile(i) ==
    /\ pc[i] = "save_tile"
    /\ stitched_tiles' = [stitched_tiles EXCEPT ![all_tiles[i]] = Stitched({})]
    /\ pc' = [pc EXCEPT ![i] = "save_outline"]
    /\ UNCHANGED << tile_files, outline_files, stitched_outlines, all_tiles,
                    tiles_touched, chan, reply, k, answer, built, ok, fail,
                    cacheVars, sweepVars, loadVars >>

\* 85-93: target_outline.save(../stitched/outlines/{y}-{x}.png); return true
SaveOutline(i) ==
    /\ pc[i] = "save_outline"
    /\ stitched_outlines' =
         [stitched_outlines EXCEPT ![all_tiles[i]] = Stitched(SentinelMembers(all_tiles[i]))]
    /\ built' = [built EXCEPT ![i] = "saved"]
    /\ pc' = [pc EXCEPT ![i] = "add"]
    /\ UNCHANGED << tile_files, outline_files, stitched_tiles, all_tiles,
                    tiles_touched, chan, reply, k, answer, ok, fail,
                    cacheVars, sweepVars, loadVars >>

\* 160-170: both branches on the result of build_tile_img are empty; then one
\* Request::Add per member, each a blocking send.
SendAdd(i) ==
    /\ pc[i] = "add"
    /\ Len(chan) < ChanCap
    /\ chan' = Append(chan, [kind |-> "Add", tile |-> Member(all_tiles[i], k[i]), from |-> i])
    /\ k' = [k EXCEPT ![i] = k[i] + 1]
    /\ pc' = [pc EXCEPT ![i] = IF k[i] + 1 = N * N THEN "done" ELSE "add"]
    /\ UNCHANGED << tile_files, outline_files, stitched_tiles, stitched_outlines,
                    all_tiles, tiles_touched, reply, answer, built, ok, fail,
                    cacheVars, sweepVars, loadVars >>

(***************************************************************************)
(* The coordinator thread, main.rs:136-144: one request per iteration.     *)
(***************************************************************************)
\* A coordinator that takes a query and sends no answer.
AnswerNothing(set, tile) == "empty"

\* A coordinator that answers every query with false.
AnswerAbsent(set, tile) == "absent"

\* 140: tiles_touched.contains(&tile)
Answer(set, tile) == IF tile \in set THEN "present" ELSE "absent"

CoordContains ==
    /\ chan # << >>
    /\ Head(chan).kind = "Contains"
    /\ reply' = [reply EXCEPT ![Head(chan).from] = Answer(tiles_touched, Head(chan).tile)]
    /\ chan' = Tail(chan)
    /\ UNCHANGED << tile_files, outline_files, stitched_tiles, stitched_outlines,
                    all_tiles, tiles_touched, pc, k, answer, built, ok, fail,
                    cacheVars, sweepVars, loadVars >>

\* A coordinator that keeps only the last tile added.
InsertOnly(set, tile) == {tile}

Insert(set, tile) == set \cup {tile}

CoordAdd ==
    /\ chan # << >>
    /\ Head(chan).kind = "Add"
    /\ tiles_touched' = Insert(tiles_touched, Head(chan).tile)
    /\ chan' = Tail(chan)
    /\ UNCHANGED << tile_files, outline_files, stitched_tiles, stitched_outlines,
                    all_tiles, reply, pc, k, answer, built, ok, fail,
                    cacheVars, sweepVars, loadVars >>

StitchNext ==
    \/ \E i \in Calls : Filtered(i)
    \/ \E i \in Calls : SendContains(i)
    \/ \E i \in Calls : RecvReply(i)
    \/ \E i \in Calls : BuildCheck(i)
    \/ \E i \in Calls : SaveTile(i)
    \/ \E i \in Calls : SaveOutline(i)
    \/ \E i \in Calls : SendAdd(i)
    \/ CoordContains
    \/ CoordAdd

(***************************************************************************)
(* The tile image cache, src/src/main.rs.                                  *)
(*                                                                         *)
(* Geography is scaled to integers: a tile edge is TileSpan units of       *)
(* longitude and of latitude, the tiles of the model form one row          *)
(* (y = 0, between latitude TileSpan at the top and 0 at the bottom), and  *)
(* the image the provider returns is ImgSize pixels wide and high.         *)
(*   TileSpan   units of longitude (latitude) per tile edge                *)
(*   ImgSize    tileimg.width() and tileimg.height()                       *)
(*   MaxDraws   calls of draw_polygon and of fetch_outline_way in a run    *)
(*   AreaThreshold  the area (100 m^2 in the source) below which a         *)
(*              building is drawn as BuildingBelowAreaThreshold            *)
(***************************************************************************)
TileSpan == 4
ImgSize == 2
MaxDraws == 2
AreaThreshold == 2

CTiles == { Tile(0, 0), Tile(1, 0), Tile(2, 0) }

\* slippy_map_tiles::BBox and Tile::bbox(), Tile::top/bottom/left/right.
BBox(top, left, bottom, right) ==
    [top |-> top, left |-> left, bottom |-> bottom, right |-> right]

TileBBox(tile) ==
    BBox(TileSpan - tile[2] * TileSpan, tile[1] * TileSpan,
         TileSpan - (tile[2] + 1) * TileSpan, (tile[1] + 1) * TileSpan)

overlaps_bbox(a, b) ==
    /\ a.left < b.right
    /\ a.right > b.left
    /\ a.top > b.bottom
    /\ a.bottom < b.top

\* 160-162: the area of interest, here the first two tiles of the row.
interest_bbox == BBox(TileSpan, 0, 0, 2 * TileSpan)

\* A predicate that takes every tile to be of interest.
AlwaysDownload(tile) == TRUE

\* 167-174
do_download(tile) == overlaps_bbox(interest_bbox, TileBBox(tile))

\* slippy_map_tiles::lat_lon_to_tile at ZOOM.
lat_lon_to_tile(lat, lon) == Tile(lon \div TileSpan, (TileSpan - lat) \div TileSpan)

GeoCoordinate(lon, lat) == [longitude |-> lon, latitude |-> lat]

\* The cast "as i32" of a quotient: truncation toward zero.
TruncDiv(n, d) == IF n >= 0 THEN n \div d ELSE -((-n) \div d)

\* 216-239: translate(..) as i32 on both axes; latitude runs from the top
\* edge (pixel 0) down to the bottom edge.
geo_to_screen_coordinate(tile, screen_size, coord) ==
    LET b == TileBBox(tile)
    IN  << TruncDiv((coord.longitude - b.left) * screen_size[1], b.right - b.left),
           TruncDiv((b.top - coord.latitude) * screen_size[2], b.top - b.bottom) >>

\* 131, 133-139
COLOR_INDEX == << <<0, 0, 0>>, <<255, 0, 0>>, <<0, 255, 0>> >>
Nothing == 0
BuildingBelowAreaThreshold == 1
Normal == 2
BuildingHasExcludedTags == 3
BuildingColor == { Nothing, BuildingBelowAreaThreshold, Normal, BuildingHasExcludedTags }

\* An outline canvas: its size and what was drawn into it.
Canvas(w, h) == [width |-> w, height |-> h, drawn |-> {}]

\* The polygons of the model: a closed ring inside tile 0, a ring over
\* tiles 0 and 1, a ring over tile 1 and tile 2 (which is outside the area
\* of interest), and a ring whose three vertices all fall into one pixel of
\* tile 0.
PolyInside ==
    << GeoCoordinate(1, TileSpan), GeoCoordinate(TileSpan - 1, TileSpan),
       GeoCoordinate(TileSpan - 1, 1), GeoCoordinate(1, TileSpan) >>
PolyAcross ==
    << GeoCoordinate(TileSpan - 1, TileSpan), GeoCoordinate(TileSpan + 1, TileSpan),
       GeoCoordinate(TileSpan + 1, 1) >>
PolyEdge ==
    << GeoCoordinate(2 * TileSpan - 1, TileSpan), GeoCoordinate(2 * TileSpan + 1, TileSpan),
       GeoCoordinate(2 * TileSpan + 1, 1) >>
PolyDot ==
    << GeoCoordinate(0, TileSpan), GeoCoordinate(1, TileSpan),
       GeoCoordinate(1, TileSpan - 1) >>

Polys == { PolyInside, PolyAcross, PolyEdge, PolyDot }

\* 248-255: the tiles of the vertices.
TilesOf(poly) ==
    { lat_lon_to_tile(poly[n].latitude, poly[n].longitude) : n \in 1..Len(poly) }

\* The orders in which "for tile in tiles" may visit a HashSet.
Orders(set) ==
    { o \in [1..Cardinality(set) -> set] :
        \A a, b \in 1..Cardinality(set) : a # b => o[a] # o[b] }

\* 294-339: load().  The cache as built from the two directories.
load(tiles_dir, outlines_dir) ==
    [ tiles |-> { ParseName(name) : name \in tiles_dir },
      outlines |-> [ t \in { ParseName(name) : name \in DOMAIN outlines_dir } |->
                       outlines_dir[FileName(t)] ],
      dirty |-> {} ]

\* What a call works on and hands back: the cache, the two directories, the
\* requests sent, the tiles prepare_tile returned Ok for, and how the call
\* ended ("Ok", "Err", or "panic" when an unwrap or an index ended the process;
\* why then names the expression that panicked).
World(c, dt, do, f, p, result) ==
    [cache |-> c, disk_tiles |-> dt, disk_outlines |-> do, fetches |-> f,
     prepared |-> p, result |-> result, why |-> "none"]

\* A test that never finds the tile loaded.
NeverLoaded(c, tile) == FALSE

\* 180-182: both maps hold the tile.
Loaded(c, tile) == tile \in c.tiles /\ tile \in DOMAIN c.outlines

\* 150-214: prepare_tile.  net tells whether the provider answers the
\* request with an image; send().unwrap() and decode().unwrap() panic if not.
prepare_tile(w, tile, net) ==
    IF tile \notin w.cache.tiles /\ ~do_download(tile)
        THEN [w EXCEPT !.result = "Err"]
    ELSE IF Loaded(w.cache, tile)
        THEN [w EXCEPT !.prepared = @ \cup { tile }, !.result = "Ok"]
    ELSE IF ~net
        THEN [w EXCEPT !.fetches[tile] = @ + 1, !.result = "panic", !.why = "fetch"]
    ELSE [w EXCEPT
            !.fetches[tile] = @ + 1,
            !.disk_tiles = @ \cup { FileName(tile) },
            !.cache.tiles = @ \cup { tile },
            !.cache.outlines =
                [ t \in DOMAIN @ \cup { tile } |->
                    IF t = tile THEN Canvas(ImgSize, ImgSize) ELSE @[t] ],
            !.prepared = @ \cup { tile },
            !.result = "Ok"]

\* 268-270: pop while the last point equals the first; last() of an empty
\* vector is None, and its unwrap panics.
RECURSIVE PopClosing(_)
PopClosing(pts) ==
    IF pts = << >> THEN [ok |-> FALSE, pts |-> pts]
    ELSE IF pts[Len(pts)] = pts[1] THEN PopClosing(SubSeq(pts, 1, Len(pts) - 1))
    ELSE [ok |-> TRUE, pts |-> pts]

\* 257-276: the body of "for tile in tiles", over the tiles of order that
\* fetch an image (up) or fail to (the others).
RECURSIVE draw_loop(_, _, _, _, _)
draw_loop(w, poly, how, order, up) ==
    IF order = << >> THEN [w EXCEPT !.result = "Ok"]
    ELSE
        LET tile == Head(order)
            marked == [w EXCEPT !.cache.dirty = @ \cup { tile }]
            ready == prepare_tile(marked, tile, tile \in up)
        IN  IF ready.result # "Ok" THEN ready
            ELSE
                LET img == ready.cache.outlines[tile]
                    screen_size == << img.width, img.height >>
                    projected ==
                        [ n \in 1..Len(poly) |->
                            geo_to_screen_coordinate(tile, screen_size, poly[n]) ]
                    popped == PopClosing(projected)
                IN  IF ~popped.ok
                        THEN [ready EXCEPT !.result = "panic", !.why = "last"]
                    ELSE IF how + 1 > Len(COLOR_INDEX)
                        THEN [ready EXCEPT !.result = "panic", !.why = "COLOR_INDEX"]
                    ELSE draw_loop(
                            [ready EXCEPT !.cache.outlines[tile].drawn =
                                @ \cup { [pts |-> popped.pts, color |-> COLOR_INDEX[how + 1]] }],
                            poly, how, Tail(order), up)

\* A save that forgets the dirty tiles without writing their canvases.
ClearOnly(w) == [w EXCEPT !.cache.dirty = {}, !.result = "Ok"]

\* 281-292: save()
save(w) ==
    [w EXCEPT
        !.disk_outlines =
            [ name \in DOMAIN @ \cup
                       { FileName(t) : t \in DOMAIN w.cache.outlines \cap w.cache.dirty } |->
                IF ParseName(name) \in DOMAIN w.cache.outlines \cap w.cache.dirty
                    THEN w.cache.outlines[ParseName(name)]
                    ELSE @[name] ],
        !.cache.dirty = {},
        !.result = "Ok"]

\* The nodes of the extract by id, and the ways of the model: the ring of
\* PolyInside, a way of two nodes, a way that names a node the extract does
\* not hold, and a way that goes from one node to another and back.
MissingNode == 9
nodes ==
    [ id \in 1..3 |->
        CASE id = 1 -> GeoCoordinate(1, TileSpan)
          [] id = 2 -> GeoCoordinate(TileSpan - 1, TileSpan)
          [] id = 3 -> GeoCoordinate(TileSpan - 1, 1) ]
WayInside == << 1, 2, 3, 1 >>
WayShort == << 1, 2 >>
WayUnresolved == << 1, 2, MissingNode >>
WayBackForth == << 1, 2, 1 >>
Ways == { WayInside, WayShort, WayUnresolved, WayBackForth }

\* geodesic_area_signed().abs() of the ring the coordinates close, in square
\* units of the model and doubled (the shoelace sum), to stay in the integers.
RECURSIVE Shoelace(_, _)
Shoelace(coords, n) ==
    IF n > Len(coords) THEN 0
    ELSE LET a == coords[n]
             b == coords[IF n = Len(coords) THEN 1 ELSE n + 1]
         IN  a.longitude * b.latitude - b.longitude * a.latitude
                 + Shoelace(coords, n + 1)

DoubleArea(coords) ==
    LET sum == Shoelace(coords, 1) IN IF sum < 0 THEN -sum ELSE sum

\* A length test that lets every way through.
LongEnough(way) == FALSE

\* 347: way.nodes.len() < 3
TooShort(way) == Len(way) < 3

\* 342-377: fetch_outline_way.  The coordinates are those of the way's nodes;
\* "unresolved" stands for the Vec of Options that holds a None.
WayCoords(way) ==
    IF \A n \in 1..Len(way) : way[n] \in DOMAIN nodes
        THEN [ n \in 1..Len(way) |-> nodes[way[n]] ]
        ELSE << >>

fetch_outline_way(w, way, order, up) ==
    IF TooShort(way) THEN [w EXCEPT !.result = "Ok"]
    ELSE IF \E n \in 1..Len(way) : way[n] \notin DOMAIN nodes
        THEN [w EXCEPT !.result = "Ok"]
    ELSE
        LET coords == WayCoords(way)
        IN  IF DoubleArea(coords) < 2 * AreaThreshold
                THEN draw_loop(w, coords, BuildingBelowAreaThreshold, order, up)
                ELSE draw_loop(w, coords, Normal, order, up)

Now == World(cache, disk_tiles, disk_outlines, fetches, prepared, "Ok")

\* A call of the interface: its arguments, its result, and whether it sent a
\* request to the provider.
Call(op, tile, poly, how, order, w) ==
    [op |-> op, tile |-> tile, way |-> << >>, poly |-> poly, how |-> how,
     order |-> order, result |-> w.result, why |-> w.why, sent |-> w.fetches # fetches]

Becomes(w, call) ==
    /\ cache' = w.cache
    /\ disk_tiles' = w.disk_tiles
    /\ disk_outlines' = w.disk_outlines
    /\ fetches' = w.fetches
    /\ prepared' = w.prepared
    /\ panicked' = (w.result = "panic")
    /\ last_call' = call

\* The directories a run of the cache starts from: tile 0 and tile 2 each
\* absent, or a base tile alone, or a base tile with its (blank) outline.
CacheInit ==
    /\ disk_tiles \in SUBSET { FileName(Tile(0, 0)), FileName(Tile(2, 0)) }
    /\ \E with \in SUBSET disk_tiles :
          disk_outlines = [ name \in with |-> Canvas(ImgSize, ImgSize) ]
    /\ cache = load(disk_tiles, disk_outlines)
    /\ fetches = [ t \in CTiles |-> 0 ]
    /\ panicked = FALSE
    /\ draws = 0
    /\ prepared = {}
    /\ last_call = Call("load", Tile(0, 0), << >>, Nothing, << >>, Now)

PrepareTile(tile, net) ==
    /\ ~panicked
    /\ LET w == prepare_tile(Now, tile, net)
       IN  Becomes(w, Call("prepare_tile", tile, << >>, Nothing, << >>, w))
    /\ UNCHANGED << draws, stitchVars, sweepVars, loadVars >>

DrawPolygon(poly, how, order, up) ==
    /\ ~panicked
    /\ draws < MaxDraws
    /\ draws' = draws + 1
    /\ LET w == draw_loop(Now, poly, how, order, up)
       IN  Becomes(w, Call("draw_polygon", Tile(0, 0), poly, how, order, w))
    /\ UNCHANGED << stitchVars, sweepVars, loadVars >>

Save ==
    /\ ~panicked
    /\ Becomes(save(Now), Call("save", Tile(0, 0), << >>, Nothing, << >>, save(Now)))
    /\ UNCHANGED << draws, stitchVars, sweepVars, loadVars >>

\* fetch_outline_way for a way of the extract (its call at 517 logs an error
\* and takes the next way).
FetchOutlineWay(way, order, up) ==
    /\ ~panicked
    /\ draws < MaxDraws
    /\ draws' = draws + 1
    /\ LET w == fetch_outline_way(Now, way, order, up)
       IN  Becomes(w, [Call("fetch_outline_way", Tile(0, 0), WayCoords(way),
                            Nothing, order, w) EXCEPT !.way = way])
    /\ UNCHANGED << stitchVars, sweepVars, loadVars >>

CacheNext ==
    \/ \E tile \in CTiles, net \in BOOLEAN : PrepareTile(tile, net)
    \/ \E poly \in Polys, how \in BuildingColor :
          \E order \in Orders(TilesOf(poly)), up \in SUBSET TilesOf(poly) :
              DrawPolygon(poly, how, order, up)
    \/ \E way \in Ways :
          \E order \in Orders(TilesOf(WayCoords(way))), up \in SUBSET TilesOf(WayCoords(way)) :
              FetchOutlineWay(way, order, up)
    \/ Save

(***************************************************************************)
(* The download sweep of build_outlines, src/src/main.rs 420-498: one call *)
(* of download_tile for every tile between the corner tiles of the area of *)
(* interest, on the threads of the rayon pool.  A call sends its request   *)
(* and stores the image in two steps, so that calls interleave.  The names *)
(* in tiles/ are well formed here (load below reads the others).           *)
(***************************************************************************)
\* 465: num_threads(256)
PoolThreads == 256

\* 468-480: the tiles of iter.
SweepTiles ==
    LET top_left_tile == lat_lon_to_tile(interest_bbox.top, interest_bbox.left)
        bottom_right_tile == lat_lon_to_tile(interest_bbox.bottom, interest_bbox.right)
    IN  { Tile(x, y) : x \in top_left_tile[1]..bottom_right_tile[1],
                       y \in top_left_tile[2]..bottom_right_tile[2] }

\* A test that never finds the tile.
NeverContains(set, tile) == FALSE

\* 442: tiles.contains(&tile)
Contains(set, tile) == tile \in set

\* 420-439: the names of tiles/ as read at the start, and the set built from
\* them: some of tile (0,0) under its two spellings and of tile (1,1).
SweepInit ==
    /\ listing \in SUBSET { FileName(Tile(0, 0)), AltName0, FileName(Tile(1, 1)) }
    /\ tiles = { ParseName(name) : name \in listing }
    /\ sweep_dir = listing
    /\ at = [ t \in SweepTiles |-> "todo" ]
    /\ requests = [ t \in SweepTiles |-> 0 ]

\* 441-444: the tile is in the set, the call returns.
DownloadKnown(tile) ==
    /\ at[tile] = "todo"
    /\ Cardinality({ t \in SweepTiles : at[t] = "sent" }) < PoolThreads
    /\ Contains(tiles, tile)
    /\ at' = [at EXCEPT ![tile] = "done"]
    /\ UNCHANGED << listing, tiles, sweep_dir, requests, stitchVars, cacheVars, loadVars >>

\* 445-448: client.get(path).send()
DownloadSend(tile) ==
    /\ at[tile] = "todo"
    /\ Cardinality({ t \in SweepTiles : at[t] = "sent" }) < PoolThreads
    /\ ~Contains(tiles, tile)
    /\ requests' = [requests EXCEPT ![tile] = @ + 1]
    /\ at' = [at EXCEPT ![tile] = "sent"]
    /\ UNCHANGED << listing, tiles, sweep_dir, stitchVars, cacheVars, loadVars >>

\* 448-457: the answer decodes and is saved as tiles/y-x.jpg.
DownloadStore(tile) ==
    /\ at[tile] = "sent"
    /\ sweep_dir' = sweep_dir \cup { FileName(tile) }
    /\ at' = [at EXCEPT ![tile] = "done"]
    /\ UNCHANGED << listing, tiles, requests, stitchVars, cacheVars, loadVars >>

\* 448-453: send(), bytes() or decode() fails and its unwrap panics.  The
\* pool lets the calls that run finish and may or may not start the others
\* before for_each hands the panic to main.
DownloadPanic(tile) ==
    /\ at[tile] = "sent"
    /\ at' = [at EXCEPT ![tile] = "panic"]
    /\ UNCHANGED << listing, tiles, sweep_dir, requests, stitchVars, cacheVars, loadVars >>

SweepNext ==
    \/ \E tile \in SweepTiles : DownloadKnown(tile)
    \/ \E tile \in SweepTiles : DownloadSend(tile)
    \/ \E tile \in SweepTiles : DownloadStore(tile)
    \/ \E tile \in SweepTiles : DownloadPanic(tile)

SweepIdle ==
    /\ listing = {}
    /\ tiles = {}
    /\ sweep_dir = {}
    /\ at = [ t \in SweepTiles |-> "todo" ]
    /\ requests = [ t \in SweepTiles |-> 0 ]

(***************************************************************************)
(* ImageCache::load, src/src/main.rs 294-339, over names as they are       *)
(* spelled: a name is its stem split at "-" and what follows its last      *)
(* ".".  A part is a decimal number or some other text.                    *)
(*   MaxNames   names in tiles/ at the start of load                       *)
(***************************************************************************)
MaxNames == 2

Num(n) == [numeric |-> TRUE, value |-> n]
Word == [numeric |-> FALSE, value |-> 0]
RawName(parts, ext) == [parts |-> parts, ext |-> ext]

\* tiles/ may hold: 0-0.jpg, 0-1.jpg, 1-2-3.jpg, 1.jpg, a-0.jpg, 0-a.jpg,
\* 0-0.png, 0-0.txt; outlines/: 0-0.png, 1-2-3.png, 0-0.jpg.
RawTileNames ==
    { RawName(<< Num(0), Num(0) >>, "jpg"), RawName(<< Num(0), Num(1) >>, "jpg"),
      RawName(<< Num(1), Num(2), Num(3) >>, "jpg"), RawName(<< Num(1) >>, "jpg"),
      RawName(<< Word, Num(0) >>, "jpg"), RawName(<< Num(0), Word >>, "jpg"),
      RawName(<< Num(0), Num(0) >>, "png"), RawName(<< Num(0), Num(0) >>, "txt") }
RawOutlineNames ==
    { RawName(<< Num(0), Num(0) >>, "png"), RawName(<< Num(1), Num(2), Num(3) >>, "png"),
      RawName(<< Num(0), Num(0) >>, "jpg") }

\* 306-309 (and 325-328): strip_suffix(..).unwrap().split("-"), then
\* parts.next().unwrap().parse().unwrap() for y and again for x; what is
\* left in parts is not looked at.  ok is FALSE where an unwrap panics.
parse_name(name, suffix) ==
    LET parts == name.parts
        failed == [ok |-> FALSE, tile |-> Tile(0, 0)]
    IN  IF name.ext # suffix THEN failed
        ELSE IF Len(parts) < 1 \/ ~parts[1].numeric THEN failed
        ELSE IF Len(parts) < 2 \/ ~parts[2].numeric THEN failed
        ELSE [ok |-> TRUE, tile |-> Tile(parts[2].value, parts[1].value)]

\* Where load stands once the loop "loop" has rest left to read.
Position(loop, rest) ==
    IF rest # {} THEN [at |-> loop, unread |-> rest]
    ELSE IF loop = "tiles" /\ raw_outlines # {}
        THEN [at |-> "outlines", unread |-> raw_outlines]
    ELSE [at |-> "returned", unread |-> {}]

LoadInit ==
    /\ raw_tiles \in { dir \in SUBSET RawTileNames : Cardinality(dir) <= MaxNames }
    /\ raw_outlines \in { dir \in SUBSET RawOutlineNames : Cardinality(dir) <= 1 }
    /\ index = [tiles |-> {}, outlines |-> {}]
    /\ load_at = Position("tiles", raw_tiles).at
    /\ unread = Position("tiles", raw_tiles).unread

\* 298-311: one turn of the loop over tiles/.
LoadTile(name) ==
    /\ load_at = "tiles"
    /\ name \in unread
    /\ LET parsed == parse_name(name, "jpg")
       IN  IF parsed.ok
               THEN /\ index' = [index EXCEPT !.tiles = @ \cup { parsed.tile }]
                    /\ load_at' = Position("tiles", unread \ { name }).at
                    /\ unread' = Position("tiles", unread \ { name }).unread
               ELSE /\ load_at' = "panic"
                    /\ UNCHANGED << index, unread >>
    /\ UNCHANGED << raw_tiles, raw_outlines, stitchVars, cacheVars, sweepVars >>

\* 312-330: one turn of the loop over outlines/ (the files of the model
\* decode as images).
LoadOutline(name) ==
    /\ load_at = "outlines"
    /\ name \in unread
    /\ LET parsed == parse_name(name, "png")
       IN  IF parsed.ok
               THEN /\ index' = [index EXCEPT !.outlines = @ \cup { parsed.tile }]
                    /\ load_at' = Position("outlines", unread \ { name }).at
                    /\ unread' = Position("outlines", unread \ { name }).unread
               ELSE /\ load_at' = "panic"
                    /\ UNCHANGED << index, unread >>
    /\ UNCHANGED << raw_tiles, raw_outlines, stitchVars, cacheVars, sweepVars >>

LoadNext ==
    \/ \E name \in RawTileNames : LoadTile(name)
    \/ \E name \in RawOutlineNames : LoadOutline(name)

LoadIdle ==
    /\ raw_tiles = {}
    /\ raw_outlines = {}
    /\ unread = {}
    /\ index = [tiles |-> {}, outlines |-> {}]
    /\ load_at = "returned"

\* The program a specification does not run stays as constructed.
StitchIdle ==
    /\ tile_files = {}
    /\ outline_files = {}
    /\ stitched_tiles = [ key \in Keys |-> NoFile ]
    /\ stitched_outlines = [ key \in Keys |-> NoFile ]
    /\ all_tiles = << >>
    /\ tiles_touched = {}
    /\ chan = << >>
    /\ reply = << >>
    /\ pc = << >>
    /\ k = << >>
    /\ answer = << >>
    /\ built = << >>
    /\ ok = 0
    /\ fail = 0

CacheIdle ==
    /\ disk_tiles = {}
    /\ disk_outlines = << >>
    /\ cache = load({}, << >>)
    /\ fetches = [ t \in CTiles |-> 0 ]
    /\ panicked = FALSE
    /\ draws = 0
    /\ prepared = {}
    /\ last_call = Call("load", Tile(0, 0), << >>, Nothing, << >>, Now)

Init == StitchInit /\ CacheIdle /\ SweepIdle /\ LoadIdle

Next == StitchNext

Spec == Init /\ [][Next]_vars

\* The steps of the closure call at position i of the work list, and the
\* steps of the coordinator thread.
Worker(i) ==
    /\ i \in Calls
    /\ \/ Filtered(i)
       \/ SendContains(i)
       \/ RecvReply(i)
       \/ BuildCheck(i)
       \/ SaveTile(i)
       \/ SaveOutline(i)
       \/ SendAdd(i)

Coordinator == CoordContains \/ CoordAdd

Workers == \E i \in Calls : Worker(i)

\* The sweep under fair scheduling: neither the coordinator thread nor the
\* pool is held back forever while it can take a step (a thread that is
\* runnable is run; a send or recv that can complete does).
FairSpec ==
    /\ Init
    /\ [][Next]_vars
    /\ WF_vars(Coordinator)
    /\ WF_vars(Workers)

CacheStart == CacheInit /\ StitchIdle /\ SweepIdle /\ LoadIdle

CacheSpec == CacheStart /\ [][CacheNext]_vars

SweepStart == SweepInit /\ StitchIdle /\ CacheIdle /\ LoadIdle

SweepSpec == SweepStart /\ [][SweepNext]_vars

LoadStart == LoadInit /\ StitchIdle /\ CacheIdle /\ SweepIdle

LoadSpec == LoadStart /\ [][LoadNext]_vars

(***************************************************************************)
(* Properties of the stitcher.                                             *)
(***************************************************************************)
CallsOf(key) == { i \in Calls : all_tiles[i] = key }

Building == {"build", "save_tile", "save_outline"}

Queued(kind, tile) ==
    \E n \in 1..Len(chan) : chan[n].kind = kind /\ chan[n].tile = tile

\* build_tile_img's return value, from how it ended.
Returned(i) == built[i] \in {"exists", "saved"}

\* C1: when every call handed the same block key is over, exactly one of
\* them has run the block build, and all the others were answered that the
\* key is already touched.
C1_ExactlyOnce ==
    \A key \in Keys :
        (CallsOf(key) # {} /\ \A i \in CallsOf(key) : pc[i] = "done") =>
            /\ Cardinality({ i \in CallsOf(key) : built[i] # "none" }) = 1
            /\ Cardinality({ i \in CallsOf(key) : answer[i] = "absent" }) = 1

\* C2: a call that is building its block (from the start of build_tile_img to
\* its last write) has already inserted the block key into the TouchedSet.
C2_InsertBeforeBuild ==
    \A i \in Calls : pc[i] \in Building => all_tiles[i] \in tiles_touched

\* C3: no step of the run removes a tile from the TouchedSet.
C3_TouchedMonotonic == [][tiles_touched \subseteq tiles_touched']_vars

\* C3 witness: the coordinator has inserted a whole block and has since
\* answered a query for its key.
C3_Witness ==
    /\ Members(Anchor0) \subseteq tiles_touched
    /\ \E i \in Calls : answer[i] = "present"

\* C4: a block with a missing base tile is never written (its stitched base
\* and outline files stay as they were before the run, and a build that met
\* the missing tile goes on to the inserts without a write); once that call
\* has sent its inserts the key is in the TouchedSet or on its way to it; and
\* a query the coordinator answers once the key is inserted is never answered
\* absent, so no call whose query comes after the insert builds the block.
C4_NoWrite ==
    \A i \in Calls :
        ( /\ all_tiles[i] \in Keys
          /\ \E t \in Members(all_tiles[i]) : FileName(t) \notin tile_files ) =>
            /\ stitched_tiles[all_tiles[i]] \in {NoFile, Prior}
            /\ stitched_outlines[all_tiles[i]] \in {NoFile, Prior}
            /\ pc[i] \notin {"save_tile", "save_outline"}
            /\ built[i] \in {"none", "exists", "no tile"}

C4_KeyInserted ==
    \A i \in Calls :
        (built[i] = "no tile" /\ pc[i] = "done") =>
            all_tiles[i] \in tiles_touched \/ Queued("Add", all_tiles[i])

C4_NoLaterBuild ==
    \A i \in Calls :
        (reply[i] = "empty" /\ reply'[i] = "absent") => all_tiles[i] \notin tiles_touched

MetMissingImage(i) ==
    /\ built[i] \in {"no tile", "saved"}
    /\ \E t \in Members(all_tiles[i]) :
          FileName(t) \notin tile_files \/ FileName(t) \notin outline_files

C5_UniformPolicy ==
    \/ \A i \in Calls : MetMissingImage(i) => built[i] = "no tile"
    \/ \A i \in Calls : MetMissingImage(i) => built[i] = "saved"

\* C6: a build invoked while both stitched files of its block exist returns
\* true from the existence check (before any member is read) and leaves both
\* stitched directories as they are.
C6_Step ==
    \A i \in Calls :
        ( /\ pc[i] = "build"
          /\ pc'[i] # "build"
          /\ stitched_tiles[all_tiles[i]] # NoFile
          /\ stitched_outlines[all_tiles[i]] # NoFile ) =>
            /\ built'[i] = "exists"
            /\ pc'[i] = "add"
            /\ stitched_tiles' = stitched_tiles
            /\ stitched_outlines' = stitched_outlines

C7_OnlyAnchors ==
    /\ \A i \in Calls :
          (all_tiles[i][1] % N # 0 \/ all_tiles[i][2] % N # 0) =>
              /\ pc[i] \in {"todo", "done"}
              /\ reply[i] = "empty" /\ answer[i] = "none"
              /\ built[i] = "none" /\ k[i] = 0
              /\ \A n \in 1..Len(chan) : chan[n].from # i
    /\ \A n \in 1..Len(chan) :
          chan[n].kind = "Contains" =>
              chan[n].tile[1] % N = 0 /\ chan[n].tile[2] % N = 0

\* C7 witness: a non-anchor position went through the closure, and its tile
\* is in the TouchedSet as a member of its anchor's block.
C7_Witness ==
    \E i \in Calls :
        /\ all_tiles[i][2] % N # 0
        /\ pc[i] = "done"
        /\ all_tiles[i] \in tiles_touched

\* C17: the counters account for the builds: fail counts the calls of
\* build_tile_img that returned false for a missing member tile, and ok and
\* fail together count the calls of build_tile_img that have returned.
C17_FailureAccounting ==
    /\ fail = Cardinality({ i \in Calls : built[i] = "no tile" })
    /\ ok + fail = Cardinality({ i \in Calls : built[i] \in { "exists", "no tile", "saved" } })

\* C18: the coordinator alone changes the TouchedSet and answers queries,
\* one request of the channel at a time and in the order of the channel: the
\* only steps that take a request off the channel take its head; an Add
\* inserts its tile and nothing else, a Contains is answered from the inserts
\* taken off the channel before it and changes nothing else; and the
\* TouchedSet is at all times the set of tiles of the Adds taken so far.
AddsInChan(i) ==
    Cardinality({ n \in 1..Len(chan) : chan[n].kind = "Add" /\ chan[n].from = i })

AddsTaken ==
    UNION { { Member(all_tiles[i], j) : j \in 0..(k[i] - AddsInChan(i) - 1) } : i \in Calls }

C18_Step ==
    /\ Len(chan') < Len(chan) =>
          /\ chan' = Tail(chan)
          /\ Head(chan).kind = "Add" =>
                /\ tiles_touched' = tiles_touched \cup { Head(chan).tile }
                /\ reply' = reply
          /\ Head(chan).kind = "Contains" =>
                /\ tiles_touched' = tiles_touched
                /\ reply' = [reply EXCEPT ![Head(chan).from] =
                                IF Head(chan).tile \in AddsTaken THEN "present" ELSE "absent"]
    /\ Len(chan') >= Len(chan) =>
          /\ tiles_touched' = tiles_touched
          /\ \A i \in Calls : reply'[i] # "empty" => reply'[i] = reply[i]

C18_SingleCoordinator == [](tiles_touched = AddsTaken) /\ [][C18_Step]_vars

\* A query was answered present while the channel still holds requests, and
\* the answer waits in the reply channel of its call.
C18_Witness ==
    /\ \E i \in Calls : reply[i] = "present"
    /\ chan # << >>
    /\ \E n \in 1..Len(chan) : chan[n].kind = "Add"

Finished ==
    /\ \A i \in Calls : pc[i] = "done"
    /\ chan = << >>
    /\ \A i \in Calls : reply[i] = "empty"

C22_SweepTerminates == <>[]Finished

\* The sweep has ended after the request channel was full: one block was
\* saved, the build of the other met a missing tile, and both calls have
\* sent all their Adds.
C22_Witness ==
    /\ Finished
    /\ \E i \in Calls : built[i] = "saved" /\ k[i] = N * N
    /\ \E i \in Calls : built[i] = "no tile" /\ k[i] = N * N

\* C23: when no tile is twice in the work list, no query is answered
\* present: only anchors are queried, every call of an anchor that is over
\* was answered absent and has run build_tile_img, once, and no other call
\* has.
NoDuplicates ==
    \A i, j \in Calls : i # j => all_tiles[i] # all_tiles[j]

C23_NeverSuppressed ==
    NoDuplicates =>
        /\ \A n \in 1..Len(chan) :
              chan[n].kind = "Contains" =>
                  chan[n].tile[1] % N = 0 /\ chan[n].tile[2] % N = 0
        /\ \A i \in Calls :
              /\ reply[i] # "present"
              /\ answer[i] # "present"
              /\ (all_tiles[i][1] % N = 0 /\ all_tiles[i][2] % N = 0 /\ pc[i] = "done") =>
                    answer[i] = "absent" /\ built[i] # "none"
              /\ (all_tiles[i][1] % N # 0 \/ all_tiles[i][2] % N # 0) =>
                    answer[i] = "none" /\ built[i] = "none"

\* A work list without duplicates and with two anchors: the coordinator
\* has inserted the whole first block, and the call of the second anchor was
\* answered absent.
C23_Witness ==
    /\ NoDuplicates
    /\ Members(Anchor0) \subseteq tiles_touched
    /\ \E i \in Calls :
          all_tiles[i] = Anchor1 /\ answer[i] = "absent" /\ Anchor1 \notin tiles_touched

(***************************************************************************)
(* Properties of the tile image cache.                                     *)
(***************************************************************************)
\* C8: once prepare_tile has returned Ok for a tile, a later call for that
\* tile returns Ok without a request, without a write to either directory
\* and without a change of the maps tiles and outlines; no tile is ever
\* requested twice, so a call that fetched an absent tile and any number of
\* calls after it make exactly one request.
C8_Step ==
    \A t \in CTiles :
        ( /\ t \in prepared
          /\ last_call'.op = "prepare_tile"
          /\ last_call'.tile = t ) =>
            /\ last_call'.result = "Ok"
            /\ fetches' = fetches
            /\ disk_tiles' = disk_tiles
            /\ disk_outlines' = disk_outlines
            /\ cache'.tiles = cache.tiles
            /\ cache'.outlines = cache.outlines

C8_PrepareIdempotent ==
    /\ [](\A t \in CTiles : fetches[t] <= 1)
    /\ [][C8_Step]_vars

\* C8 witness: tile 1, absent from both directories at the start and inside
\* the area of interest, was fetched by one call, and the last call for it
\* returned Ok without a request.
C8_Witness ==
    /\ last_call.op = "prepare_tile"
    /\ last_call.tile = Tile(1, 0)
    /\ last_call.result = "Ok"
    /\ ~last_call.sent
    /\ fetches[Tile(1, 0)] = 1
    /\ FileName(Tile(1, 0)) \in disk_tiles

\* C9: no request is ever sent for a tile that the area-of-interest
\* predicate rejects.
C9_NoFetchOutside ==
    \A t \in CTiles :
        ~overlaps_bbox(interest_bbox, TileBBox(t)) => fetches[t] = 0

\* C10: a draw_polygon call over tiles inside and outside the area of
\* interest (that did not die in a failed fetch) returns Ok and has drawn the
\* polygon into the outline canvas of every touched tile of interest.
DrawnIn(t, poly) ==
    /\ t \in DOMAIN cache.outlines
    /\ \E d \in cache.outlines[t].drawn :
          d.pts = PopClosing([ n \in 1..Len(poly) |->
                     geo_to_screen_coordinate(t, << ImgSize, ImgSize >>, poly[n]) ]).pts

C10_OutsideTilesSkipped ==
    ( /\ last_call.op = "draw_polygon"
      /\ last_call.result # "panic"
      /\ \E t \in TilesOf(last_call.poly) : overlaps_bbox(interest_bbox, TileBBox(t))
      /\ \E t \in TilesOf(last_call.poly) : ~overlaps_bbox(interest_bbox, TileBBox(t)) ) =>
        /\ last_call.result = "Ok"
        /\ \A t \in TilesOf(last_call.poly) :
              overlaps_bbox(interest_bbox, TileBBox(t)) => DrawnIn(t, last_call.poly)

\* C11: a fetch or decode that fails is an error value handed to the caller
\* of prepare_tile: the call returns (Ok or Err) and the process goes on.
C11_FetchFailureIsError ==
    last_call.op = "prepare_tile" =>
        /\ last_call.result \in { "Ok", "Err" }
        /\ ~panicked

\* C13: the colour table has a colour for every classification, so that
\* no call of draw_polygon ends in the lookup COLOR_INDEX[how as usize].
C13_ColourTableTotal ==
    last_call.op = "draw_polygon" => last_call.why # "COLOR_INDEX"

\* C14: fetch_outline_way for a way of fewer than 3 nodes, or with a node the
\* extract does not hold, returns Ok and leaves no trace: the cache (its
\* tiles, its outline canvases, its dirty set), both directories and the
\* requests sent are as before the call.
C14_Step ==
    ( /\ last_call'.op = "fetch_outline_way"
      /\ \/ Len(last_call'.way) < 3
         \/ \E n \in 1..Len(last_call'.way) : last_call'.way[n] \notin DOMAIN nodes ) =>
        /\ last_call'.result = "Ok"
        /\ ~panicked'
        /\ cache' = cache
        /\ disk_tiles' = disk_tiles
        /\ disk_outlines' = disk_outlines
        /\ fetches' = fetches

C14_RejectedWayLeavesNoTrace == [][C14_Step]_vars

\* A way of two nodes was handed in after a polygon was drawn, and the tile
\* that polygon had marked dirty is all the cache holds as dirty.
C14_Witness ==
    /\ last_call.op = "fetch_outline_way"
    /\ last_call.way = WayShort
    /\ last_call.result = "Ok"
    /\ draws = 2
    /\ cache.dirty = { Tile(0, 0) }
    /\ fetches[Tile(0, 0)] = 1

\* C15: a ring of fewer than 3 distinct vertices (the closing point repeats
\* the first) is rejected: the call handed it draws into no outline canvas.
C15_Step ==
    ( /\ last_call'.op \in { "fetch_outline_way", "draw_polygon" }
      /\ Cardinality({ last_call'.poly[n] : n \in 1..Len(last_call'.poly) }) < 3 ) =>
        \A t \in DOMAIN cache'.outlines :
            cache'.outlines[t].drawn =
                IF t \in DOMAIN cache.outlines THEN cache.outlines[t].drawn ELSE {}

C15_ThreeDistinctVertices == [][C15_Step]_vars

\* C19: save writes the outline canvas of every dirty tile that has one
\* under the tile's name and leaves dirty empty; no other call writes into
\* outlines/; and a prepare_tile call that sent a request and returned Ok
\* has stored the base image under the tile's name.
C19_Step ==
    /\ last_call'.op = "save" =>
          /\ cache'.dirty = {}
          /\ \A t \in cache.dirty \cap DOMAIN cache.outlines :
                /\ FileName(t) \in DOMAIN disk_outlines'
                /\ disk_outlines'[FileName(t)] = cache.outlines[t]
    /\ last_call'.op # "save" => disk_outlines' = disk_outlines
    /\ ( /\ last_call'.op = "prepare_tile"
         /\ last_call'.sent
         /\ last_call'.result = "Ok" ) =>
          FileName(last_call'.tile) \in disk_tiles'

C19_SavePersistsDirty == [][C19_Step]_vars

\* save has written a canvas a polygon was drawn into, and dirty is empty.
C19_Witness ==
    /\ last_call.op = "save"
    /\ cache.dirty = {}
    /\ FileName(Tile(0, 0)) \in DOMAIN disk_outlines
    /\ disk_outlines[FileName(Tile(0, 0))].drawn # {}
    /\ disk_outlines[FileName(Tile(0, 0))] = cache.outlines[Tile(0, 0)]

\* C20: for a polygon of at least 3 vertices the removal of the closing
\* point ends normally and leaves vertices to draw, also when vertices fall
\* into the same pixel: no call dies in tile_relative_poly.last().unwrap().
C20_ClosingPointRemoval ==
    ( /\ last_call.op \in { "draw_polygon", "fetch_outline_way" }
      /\ Len(last_call.poly) >= 3 ) =>
        last_call.why # "last"

(***************************************************************************)
(* Properties of the download sweep.                                       *)
(***************************************************************************)
\* C12: in every interleaving of the download sweep no tile is requested
\* twice, and no tile that had a name in tiles/ when the sweep started is
\* requested at all.
C12_NoDoubleFetch ==
    \A t \in SweepTiles :
        /\ requests[t] <= 1
        /\ (\E name \in listing : ParseName(name) = t) => requests[t] = 0

\* The sweep has ended: a tile named at the start was passed over, and every
\* other tile was requested once and stored.
C12_Witness ==
    /\ listing = { AltName0, FileName(Tile(1, 1)) }
    /\ \A t \in SweepTiles : at[t] = "done"
    /\ requests[Tile(0, 0)] = 0
    /\ \A t \in SweepTiles \ { Tile(0, 0), Tile(1, 1) } :
          requests[t] = 1 /\ FileName(t) \in sweep_dir

(***************************************************************************)
(* Properties of load.                                                     *)
(***************************************************************************)
\* C16: load returns only when every name in tiles/ is y-x.jpg and every
\* name in outlines/ is y-x.png, two decimal numbers and nothing more; any
\* other name ends the load in a panic.
TwoNumbers(name, ext) ==
    /\ name.ext = ext
    /\ Len(name.parts) = 2
    /\ name.parts[1].numeric
    /\ name.parts[2].numeric

C16_OnlyTwoShapes ==
    load_at = "returned" =>
        /\ \A name \in raw_tiles : TwoNumbers(name, "jpg")
        /\ \A name \in raw_outlines : TwoNumbers(name, "png")

====
